---------------------------- MODULE Spec2Model ----------------------------
(***************************************************************************)
(* Model of the brig.gs Pulumi program: the three component constructors   *)
(* (PrivateDatabase, PrivateRedis, WebApp) and the stack assembly of       *)
(* __main__.py.  The state is the list of resource declarations registered *)
(* with the engine, in registration order.  A constructor call is one      *)
(* action that registers the component and every resource its body         *)
(* declares, in source order.                                              *)
(*                                                                         *)
(* Python values: None is the empty tuple and a present Optional value v   *)
(* is <<v>>, so that None, an empty list and a one-element list differ.    *)
(* Random provider results are sequences of one-character strings.         *)
(***************************************************************************)
EXTENDS Integers, Sequences, FiniteSets, TLC

VARIABLES registered,   \* resource declarations, in registration order
          calls,        \* constructor calls made: <<component urn, args>>
          snapshots,    \* final snapshots left behind by destroyed databases
          constructed,  \* number of constructor calls so far
          pc,           \* position of the stack assembly's pass
          vpc_id,       \* the network identifier the caller passes
          tags          \* the tag set the caller passes

vars == <<registered, calls, snapshots, constructed, pc, vpc_id, tags>>

-----------------------------------------------------------------------------
(* Bounds of the model *)

\* constructor calls explored in one behaviour
MaxComponents == 2

-----------------------------------------------------------------------------
(* Python / Pulumi values *)

None == <<>>
Some(v) == <<v>>

\* the stack resource, the parent of a resource registered without opts
RootStack == <<"pulumi:pulumi:Stack", "stack">>

\* a resource's identity: its type qualified by its parent's, and its name
Urn(parent, type, name) ==
    <<IF parent = RootStack THEN type ELSE parent[1] \o "$" \o type, name>>

\* one resource declaration as the engine receives it: parent is the opts
\* parent (the stack when no opts are given), component the component whose
\* constructor body declares it, tags the tags argument (None when the call
\* passes none), deps the resources whose outputs its arguments read
Resource(type, name, parent, component, tagset, deps, props) ==
    [urn |-> Urn(parent, type, name), type |-> type, parent |-> parent,
     component |-> component, tags |-> tagset, deps |-> deps, props |-> props]

\* super().__init__(type, name, {}, opts) with opts = None
ComponentResource(type, name) ==
    [urn |-> Urn(RootStack, type, name), type |-> type, parent |-> RootStack,
     component |-> Urn(RootStack, type, name), tags |-> None, deps |-> {},
     props |-> <<>>]

\* An Input/Output value: the value it resolves to and the resources it was
\* computed from.  Plain(v) is a literal of the program.
Plain(v) == [value |-> v, deps |-> {}]

\* an attribute the provider computes for resource r (address, arn, id, ...)
Attribute(r, attr) ==
    [value |-> "${" \o r.urn[1] \o "::" \o r.urn[2] \o "." \o attr \o "}",
     deps |-> {r.urn}]

\* an attribute of r that echoes the input the program gave it
Echo(r, input) == [value |-> r.props[input], deps |-> {r.urn}]

\* pulumi.Output.concat(out, suffix)
Concat(out, suffix) == [value |-> out.value \o suffix, deps |-> out.deps]

\* the network lookup behind aws.ec2.get_vpc(id=...).cidr_block
VpcIds == {"vpc-a", "vpc-b"}
get_vpc(id) ==
    [cidr_block |-> IF id = "vpc-a" THEN "10.0.0.0/16" ELSE "172.16.0.0/16"]

\* the tag dictionary __main__ passes to the three components
StackTags ==
    [Name |-> "kutt", repo |-> "jaxxstorm/brig.gs",
     environment |-> "production", project |-> "kutt"]


-----------------------------------------------------------------------------
(* The random provider *)

\* a character that is a letter or a digit
Letter == "a"

\* random.RandomPassword(length, special=True, override_special): length
\* characters; the special ones are drawn from override_special and, as no
\* min_special is given, there may be none.  Two results are kept for each
\* special character: one without it and one with it.
RandomPasswordResult(length, override_special) ==
    { [i \in 1..length |-> IF i <= k THEN c ELSE Letter] :
         k \in {0, 1}, c \in override_special }

\* the characters random tokens are explored over
TokenChars == {"a", "b"}

\* random.RandomString(length): length characters.  One result is kept for
\* each character of TokenChars, repeated length times.
RandomStringResult(length) == { [i \in 1..length |-> c] : c \in TokenChars }

\* pulumi.Output.format("name-{0}-deleted", arg), character by character
FormatNameDeleted(arg) ==
    <<"n", "a", "m", "e", "-">> \o arg \o
    <<"-", "d", "e", "l", "e", "t", "e", "d">>

-----------------------------------------------------------------------------
(* components/database.py *)

DatabaseType == "jaxxstorm:index:Database"

\* the characters RandomPassword may use as symbols (override_special)
OverrideSpecial == {"@"}

\* RandomPassword(..., length=16, ...)
PasswordLength == 16

\* RandomString(..., length=4, ...)
SnapshotTokenLength == 4

\* RandomPassword("kutt-jwt-secret", length=32)
JwtSecretLength == 32

\* a password the caller supplies
SuppliedPassword == <<"h", "u", "n", "t", "e", "r", "2">>

\* PrivateDatabaseArgs: the defaults of the signature, and the arguments
\* explored for the fields the constructor branches on or copies
PrivateDatabaseArgs(vpc, tagset) ==
    [vpc_id : {vpc},
     subnet_ids : {Plain(<<"subnet-1", "subnet-2">>)},
     db_name : {"kutt"},
     production : BOOLEAN,
     disk_size : {10},
     engine : {"postgres"},
     port : {5432, 5433},
     engine_version : {"13.7"},
     instance_class : {"db.t3.micro"},
     username : {"administrator"},
     password : {None, Some(SuppliedPassword)},
     tags : {tagset}]

Self(type, name) == ComponentResource(type, name).urn

\* self.subnet_group = aws.rds.SubnetGroup(name, ..., parent=self)
DatabaseSubnetGroup(name, args) ==
    Resource("aws.rds.SubnetGroup", name, Self(DatabaseType, name),
             Self(DatabaseType, name), args.tags, args.subnet_ids.deps,
             [description |-> "Subnet group for " \o name,
              subnet_ids |-> args.subnet_ids.value])

\* the security group admitting every address instead of the network's
DatabaseSecurityGroupOpen(name, args) ==
    Resource("aws.ec2.SecurityGroup", name, Self(DatabaseType, name),
             Self(DatabaseType, name), args.tags, args.vpc_id.deps,
             [description |-> "Security group for PrivateDatabase " \o name,
              vpc_id |-> args.vpc_id.value,
              ingress |-> <<[protocol |-> "tcp",
                             from_port |-> args.port,
                             to_port |-> args.port,
                             cidr_blocks |-> <<"0.0.0.0/0">>]>>,
              egress |-> <<[protocol |-> "-1",
                            from_port |-> 0,
                            to_port |-> 0,
                            cidr_blocks |-> <<"0.0.0.0/0">>]>>])

\* self.security_group = aws.ec2.SecurityGroup(name, ..., parent=self)
DatabaseSecurityGroup(name, args) ==
    LET vpc == get_vpc(args.vpc_id.value)
    IN Resource("aws.ec2.SecurityGroup", name, Self(DatabaseType, name),
                Self(DatabaseType, name), args.tags, args.vpc_id.deps,
                [description |-> "Security group for PrivateDatabase " \o name,
                 vpc_id |-> args.vpc_id.value,
                 ingress |-> <<[protocol |-> "tcp",
                                from_port |-> args.port,
                                to_port |-> args.port,
                                cidr_blocks |-> <<vpc.cidr_block>>]>>,
                 egress |-> <<[protocol |-> "-1",
                               from_port |-> 0,
                               to_port |-> 0,
                               cidr_blocks |-> <<"0.0.0.0/0">>]>>])

\* password_result = random.RandomPassword(name, length=16, special=True,
\* override_special="@"): no opts are given, so its parent is the stack
DatabasePasswordResult(name, result) ==
    Resource("random.RandomPassword", name, RootStack,
             Self(DatabaseType, name), None, {},
             [length |-> PasswordLength, special |-> TRUE,
              override_special |-> OverrideSpecial, result |-> result])

\* the if/else choosing the instance's password
DatabasePassword(name, args, password_result) ==
    IF args.password = None
    THEN DatabasePasswordResult(name, password_result).props.result
    ELSE args.password[1]

\* snapshot_identifier = random.RandomString(name, length=4, parent=self)
DatabaseSnapshotIdentifier(name, result) ==
    Resource("random.RandomString", name, Self(DatabaseType, name),
             Self(DatabaseType, name), None, {},
             [length |-> SnapshotTokenLength, result |-> result])

\* the flag taken the wrong way round
SkipFinalSnapshotInverted(args) == IF args.production THEN TRUE ELSE FALSE

\* skip_final_snapshot=False if args.production else True
SkipFinalSnapshot(args) == IF args.production THEN FALSE ELSE TRUE

\* the identifier without the random token
FinalSnapshotIdentifierFixed(name, snapshot_result) ==
    Some(<<"n", "a", "m", "e", "-", "d", "e", "l", "e", "t", "e", "d">>)

\* final_snapshot_identifier=pulumi.Output.format("name-{0}-deleted", ...)
FinalSnapshotIdentifier(name, snapshot_result) ==
    Some(FormatNameDeleted(
             DatabaseSnapshotIdentifier(name, snapshot_result).props.result))

\* self.database = aws.rds.Instance(name, ..., parent=self.subnet_group)
DatabaseInstance(name, args, password_result, snapshot_result) ==
    LET subnet_group == DatabaseSubnetGroup(name, args)
        security_group == DatabaseSecurityGroup(name, args)
    IN Resource("aws.rds.Instance", name, subnet_group.urn,
                Self(DatabaseType, name), args.tags,
                {subnet_group.urn, security_group.urn,
                 DatabaseSnapshotIdentifier(name, snapshot_result).urn}
                  \cup (IF args.password = None
                        THEN {DatabasePasswordResult(name, password_result).urn}
                        ELSE {}),
                [db_subnet_group_name |-> subnet_group.urn,
                 allocated_storage |-> args.disk_size,
                 copy_tags_to_snapshot |-> TRUE,
                 db_name |-> args.db_name,
                 engine |-> args.engine,
                 instance_class |-> args.instance_class,
                 engine_version |-> args.engine_version,
                 vpc_security_group_ids |-> <<security_group.urn>>,
                 username |-> args.username,
                 password |-> DatabasePassword(name, args, password_result),
                 skip_final_snapshot |-> SkipFinalSnapshot(args),
                 final_snapshot_identifier |->
                     FinalSnapshotIdentifier(name, snapshot_result)])

\* the port an engine listens on when the instance is declared without one
EngineDefaultPort(engine) == IF engine = "postgres" THEN 5432 ELSE 3306

\* the port a declared aws.rds.Instance listens on: its port argument, and
\* the engine's default when the declaration passes none
InstancePort(props) ==
    IF "port" \in DOMAIN props
    THEN props.port
    ELSE EngineDefaultPort(props.engine)

\* the parameter storing the caller's argument instead of the instance's
\* password
DatabaseAdminPasswordFromArgs(name, args, password_result, snapshot_result) ==
    LET database ==
            DatabaseInstance(name, args, password_result, snapshot_result)
    IN Resource("aws.ssm.Parameter", name, Self(DatabaseType, name),
                Self(DatabaseType, name), args.tags, {database.urn},
                [type |-> "SecureString",
                 value |-> IF args.password = None
                           THEN None
                           ELSE args.password[1]])

\* self.admin_password = aws.ssm.Parameter(name, ..., parent=self)
DatabaseAdminPassword(name, args, password_result, snapshot_result) ==
    LET database ==
            DatabaseInstance(name, args, password_result, snapshot_result)
    IN Resource("aws.ssm.Parameter", name, Self(DatabaseType, name),
                Self(DatabaseType, name), args.tags, {database.urn},
                [type |-> "SecureString",
                 value |-> database.props.password])

\* PrivateDatabase.__init__: the declarations of the body, in order.
\* password_result and snapshot_result are what the random provider returns.
PrivateDatabase(name, args, password_result, snapshot_result) ==
    <<ComponentResource(DatabaseType, name),
      DatabaseSubnetGroup(name, args),
      DatabaseSecurityGroup(name, args)>>
    \o (IF args.password = None
        THEN <<DatabasePasswordResult(name, password_result)>>
        ELSE <<>>)
    \o <<DatabaseSnapshotIdentifier(name, snapshot_result),
         DatabaseInstance(name, args, password_result, snapshot_result),
         DatabaseAdminPassword(name, args, password_result, snapshot_result)>>

-----------------------------------------------------------------------------
(* components/elasticache.py *)

RedisType == "jaxxstorm:index:Redis"

\* PrivateRedisArgs
PrivateRedisArgs(vpc, tagset) ==
    [vpc_id : {vpc},
     subnet_ids : {Plain(<<"subnet-1", "subnet-2">>)},
     port : {6379, 6380},
     instance_class : {"cache.t2.micro"},
     number_of_nodes : {1},
     tags : {tagset}]

\* self.subnet_group = aws.elasticache.SubnetGroup(f"{name}-subnet-group", ...)
RedisSubnetGroup(name, args) ==
    Resource("aws.elasticache.SubnetGroup", name \o "-subnet-group",
             Self(RedisType, name), Self(RedisType, name), args.tags,
             args.subnet_ids.deps,
             [description |-> "Subnet group for " \o name,
              subnet_ids |-> args.subnet_ids.value])

\* self.security_group = aws.ec2.SecurityGroup(name, ..., parent=self)
RedisSecurityGroup(name, args) ==
    LET vpc == get_vpc(args.vpc_id.value)
    IN Resource("aws.ec2.SecurityGroup", name, Self(RedisType, name),
                Self(RedisType, name), args.tags, args.vpc_id.deps,
                [description |-> "Security group for Private Redis " \o name,
                 vpc_id |-> args.vpc_id.value,
                 ingress |-> <<[protocol |-> "tcp",
                                from_port |-> args.port,
                                to_port |-> args.port,
                                cidr_blocks |-> <<vpc.cidr_block>>]>>,
                 egress |-> <<[protocol |-> "-1",
                               from_port |-> 0,
                               to_port |-> 0,
                               cidr_blocks |-> <<"0.0.0.0/0">>]>>])

\* self.cluster = aws.elasticache.Cluster(f"{name}-redis-cluster", ...)
RedisCluster(name, args) ==
    LET subnet_group == RedisSubnetGroup(name, args)
        security_group == RedisSecurityGroup(name, args)
    IN Resource("aws.elasticache.Cluster", name \o "-redis-cluster",
                Self(RedisType, name), Self(RedisType, name), args.tags,
                {subnet_group.urn, security_group.urn},
                [engine |-> "redis",
                 node_type |-> args.instance_class,
                 port |-> args.port,
                 num_cache_nodes |-> args.number_of_nodes,
                 subnet_group_name |-> subnet_group.urn,
                 security_group_ids |-> <<security_group.urn>>,
                 final_snapshot_identifier |->
                     Some(name \o "-redis-final-snapshot")])

\* PrivateRedis.__init__: the declarations of the body, in order
PrivateRedis(name, args) ==
    <<ComponentResource(RedisType, name),
      RedisSubnetGroup(name, args),
      RedisSecurityGroup(name, args),
      RedisCluster(name, args)>>

-----------------------------------------------------------------------------
(* components/fargateapp.py *)

WebAppType == "jaxxstorm:index:WebApp"

\* WebAppArgs: the defaults of the signature, and the arguments explored
WebAppArgs(vpc, tagset) ==
    [vpc_id : {vpc},
     subnet_ids : {Plain(<<"subnet-1", "subnet-2">>)},
     image : {"jaxxstorm/kutt:latest"},
     container_name : {"kutt"},
     cluster_arn : {Plain("arn:cluster")},
     register_with_loadbalancer : BOOLEAN,
     port : {80, 3000},
     memory : {"512"},
     cpu : {"256"},
     desired_container_count : {1},
     log_group_retention : {3},
     task_role_arn : {None},
     command : {None},
     tags : {tagset},
     environment : {None},
     secrets : {None},
     target_group_arn : {Some(Plain("arn:target-group"))}]

\* the resources an Optional list of name/value entries was computed from
ListDeps(list, field) ==
    IF list = None THEN {}
    ELSE UNION {list[1][i][field].deps : i \in 1..Len(list[1])}

\* the resources an Optional Output was computed from
OptionalDeps(opt) == IF opt = None THEN {} ELSE opt[1].deps

\* self.security_group = aws.ec2.SecurityGroup(name, ..., parent=self)
WebAppSecurityGroup(name, args) ==
    LET vpc == get_vpc(args.vpc_id.value)
    IN Resource("aws.ec2.SecurityGroup", name, Self(WebAppType, name),
                Self(WebAppType, name), args.tags, args.vpc_id.deps,
                [vpc_id |-> args.vpc_id.value,
                 description |->
                     "Web application security group for " \o name,
                 ingress |-> <<[protocol |-> "tcp",
                                from_port |-> args.port,
                                to_port |-> args.port,
                                cidr_blocks |-> <<vpc.cidr_block>>]>>,
                 egress |-> <<[protocol |-> "-1",
                               from_port |-> 0,
                               to_port |-> 0,
                               cidr_blocks |-> <<"0.0.0.0/0">>]>>])

\* self.log_group = aws.cloudwatch.LogGroup(name, retention_in_days=...,
\* parent=self): no tags argument
WebAppLogGroup(name, args) ==
    Resource("aws.cloudwatch.LogGroup", name, Self(WebAppType, name),
             Self(WebAppType, name), None, {},
             [retention_in_days |-> args.log_group_retention])

\* self.task_execution_role = aws.iam.Role(name, ..., parent=self): no tags
WebAppTaskExecutionRole(name, args) ==
    Resource("aws.iam.Role", name, Self(WebAppType, name),
             Self(WebAppType, name), None, {},
             [assume_role_policy |->
                  [Version |-> "2008-10-17",
                   Statement |-> <<[Sid |-> "", Effect |-> "Allow",
                                    Principal |-> [Service |->
                                        "ecs-tasks.amazonaws.com"],
                                    Action |-> "sts:AssumeRole"]>>]])

\* aws.iam.RolePolicyAttachment(name, ..., parent=self.task_execution_role)
WebAppRolePolicyAttachment(name, args) ==
    LET role == WebAppTaskExecutionRole(name, args)
    IN Resource("aws.iam.RolePolicyAttachment", name, role.urn,
                Self(WebAppType, name), None, {role.urn},
                [role |-> Attribute(role, "name").value,
                 policy_arn |-> "arn:aws:iam::aws:policy/service-role/"
                                \o "AmazonECSTaskExecutionRolePolicy"])

\* the port mapping left at the default port 80, whatever args.port is
ContainerDefinitionsDefaultPort(name, args) ==
    <<[name |-> args.container_name,
       image |-> args.image,
       secrets |-> args.secrets,
       environment |-> args.environment,
       command |-> args.command,
       portMappings |-> <<[containerPort |-> 80,
                           protocol |-> "tcp",
                           name |-> "http"]>>,
       logConfiguration |->
           [logDriver |-> "awslogs",
            options |->
                [group |-> Attribute(WebAppLogGroup(name, args), "id").value,
                 region |-> "us-west-2",
                 stream_prefix |-> name \o "-" \o args.container_name]]]>>

\* the list given to pulumi.Output.json_dumps for container_definitions; the
\* JSON text is represented by the structure it encodes
ContainerDefinitions(name, args) ==
    <<[name |-> args.container_name,
       image |-> args.image,
       secrets |-> args.secrets,
       environment |-> args.environment,
       command |-> args.command,
       portMappings |-> <<[containerPort |-> args.port,
                           protocol |-> "tcp",
                           name |-> "http"]>>,
       logConfiguration |->
           [logDriver |-> "awslogs",
            options |->
                [group |-> Attribute(WebAppLogGroup(name, args), "id").value,
                 region |-> "us-west-2",
                 stream_prefix |-> name \o "-" \o args.container_name]]]>>

\* self.task_definition = aws.ecs.TaskDefinition(name, ..., parent=self)
WebAppTaskDefinition(name, args) ==
    LET role == WebAppTaskExecutionRole(name, args)
    IN Resource("aws.ecs.TaskDefinition", name, Self(WebAppType, name),
                Self(WebAppType, name), args.tags,
                {role.urn, WebAppLogGroup(name, args).urn}
                  \cup OptionalDeps(args.task_role_arn)
                  \cup ListDeps(args.secrets, "valueFrom")
                  \cup ListDeps(args.environment, "value"),
                [family |-> name,
                 cpu |-> args.cpu,
                 memory |-> args.memory,
                 network_mode |-> "awsvpc",
                 execution_role_arn |-> Attribute(role, "arn").value,
                 task_role_arn |-> args.task_role_arn,
                 requires_compatibilities |-> <<"FARGATE">>,
                 container_definitions |-> ContainerDefinitions(name, args)])

\* the binding replaced by an empty list, not left out, when not registering
LoadBalancersEmptyList(args) ==
    IF args.register_with_loadbalancer
    THEN Some(<<[container_name |-> args.container_name,
                 container_port |-> args.port,
                 target_group_arn |-> args.target_group_arn]>>)
    ELSE Some(<<>>)

\* load_balancers=[ServiceLoadBalancerArgs(...)]
\*     if args.register_with_loadbalancer else None
LoadBalancers(args) ==
    IF args.register_with_loadbalancer
    THEN Some(<<[container_name |-> args.container_name,
                 container_port |-> args.port,
                 target_group_arn |-> args.target_group_arn]>>)
    ELSE None

\* self.service = aws.ecs.Service(name, ..., parent=self.task_definition)
WebAppService(name, args) ==
    LET task_definition == WebAppTaskDefinition(name, args)
        security_group == WebAppSecurityGroup(name, args)
    IN Resource("aws.ecs.Service", name, task_definition.urn,
                Self(WebAppType, name), args.tags,
                {task_definition.urn, security_group.urn}
                  \cup args.cluster_arn.deps \cup args.subnet_ids.deps
                  \cup (IF args.register_with_loadbalancer
                        THEN OptionalDeps(args.target_group_arn) ELSE {}),
                [cluster |-> args.cluster_arn.value,
                 desired_count |-> args.desired_container_count,
                 launch_type |-> "FARGATE",
                 task_definition |-> Attribute(task_definition, "arn").value,
                 load_balancers |-> LoadBalancers(args),
                 network_configuration |->
                     [security_groups |-> <<security_group.urn>>,
                      assign_public_ip |-> FALSE,
                      subnets |-> args.subnet_ids.value]])

\* WebApp.__init__: the declarations of the body, in order
WebApp(name, args) ==
    <<ComponentResource(WebAppType, name),
      WebAppSecurityGroup(name, args),
      WebAppLogGroup(name, args),
      WebAppTaskExecutionRole(name, args),
      WebAppRolePolicyAttachment(name, args),
      WebAppTaskDefinition(name, args),
      WebAppService(name, args)>>

-----------------------------------------------------------------------------
(* Components instantiated with any arguments *)

\* the names components are given
Names == {"kutt", "other"}

\* the tag arguments explored: none, and the dictionary of __main__
TagSets == {None, Some(StackTags)}

Urns(seq) == {seq[i].urn : i \in 1..Len(seq)}

\* the engine rejects a declaration whose identity is already registered
Fresh(decls) == Urns(decls) \cap Urns(registered) = {}

\* a constructor call, as recorded in calls
Call(decls, args) == [component |-> decls[1].urn, args |-> args]

\* db = PrivateDatabase(name, args)
NewPrivateDatabase ==
    \E name \in Names, args \in PrivateDatabaseArgs(vpc_id, tags),
       password_result \in RandomPasswordResult(PasswordLength,
                                                OverrideSpecial),
       snapshot_result \in RandomStringResult(SnapshotTokenLength) :
        LET decls == PrivateDatabase(name, args, password_result,
                                     snapshot_result)
        IN /\ constructed < MaxComponents
           /\ Fresh(decls)
           /\ registered' = registered \o decls
           /\ calls' = Append(calls, Call(decls, args))
           /\ constructed' = constructed + 1
           /\ UNCHANGED <<snapshots, pc, vpc_id, tags>>

\* cache = PrivateRedis(name, args)
NewPrivateRedis ==
    \E name \in Names, args \in PrivateRedisArgs(vpc_id, tags) :
        LET decls == PrivateRedis(name, args)
        IN /\ constructed < MaxComponents
           /\ Fresh(decls)
           /\ registered' = registered \o decls
           /\ calls' = Append(calls, Call(decls, args))
           /\ constructed' = constructed + 1
           /\ UNCHANGED <<snapshots, pc, vpc_id, tags>>

\* app = WebApp(name, args)
NewWebApp ==
    \E name \in Names, args \in WebAppArgs(vpc_id, tags) :
        LET decls == WebApp(name, args)
        IN /\ constructed < MaxComponents
           /\ Fresh(decls)
           /\ registered' = registered \o decls
           /\ calls' = Append(calls, Call(decls, args))
           /\ constructed' = constructed + 1
           /\ UNCHANGED <<snapshots, pc, vpc_id, tags>>

\* the final snapshots deleting the registered database instances leaves
FinalSnapshots ==
    {registered[i].props.final_snapshot_identifier[1] :
        i \in {j \in 1..Len(registered) :
                 /\ registered[j].type = "aws.rds.Instance"
                 /\ ~registered[j].props.skip_final_snapshot}}

\* the stack is destroyed: every resource is deleted, and a database
\* instance that does not skip it leaves its final snapshot behind
Destroy ==
    /\ registered # <<>>
    /\ snapshots' = snapshots \cup FinalSnapshots
    /\ registered' = <<>>
    /\ calls' = <<>>
    /\ UNCHANGED <<constructed, pc, vpc_id, tags>>

Init ==
    /\ registered = <<>>
    /\ calls = <<>>
    /\ snapshots = {}
    /\ constructed = 0
    /\ pc = 0
    /\ vpc_id \in {Plain(v) : v \in VpcIds}
    /\ tags \in TagSets

Next == NewPrivateDatabase \/ NewPrivateRedis \/ NewWebApp \/ Destroy

Spec == Init /\ [][Next]_vars

-----------------------------------------------------------------------------
(* __main__.py: the stack assembly *)

\* a resource declared at the top level of the program
TopLevel(type, name, parent, deps, props) ==
    Resource(type, name, parent, RootStack, None, deps, props)

\* the declaration registered under an identity
Registered(urn) ==
    registered[CHOOSE i \in 1..Len(registered) : registered[i].urn = urn]

\* vpc = pulumi.StackReference(f"{org}/aws_vpc/{stack}")
vpc_ref ==
    TopLevel("pulumi.StackReference", "org/aws_vpc/stack", RootStack, {}, <<>>)

\* subnet_ids = vpc.require_output("private_subnet_ids")
subnet_ids ==
    [value |-> <<"subnet-1", "subnet-2">>, deps |-> {vpc_ref.urn}]

\* cluster = pulumi.StackReference(f"{org}/aws_ecs/{stack}")
cluster_ref ==
    TopLevel("pulumi.StackReference", "org/aws_ecs/stack", RootStack, {}, <<>>)

cluster_arn == Attribute(cluster_ref, "cluster_arn")

\* loadbalancer = pulumi.StackReference(f"{org}/aws_loadbalancer/{stack}")
loadbalancer_ref ==
    TopLevel("pulumi.StackReference", "org/aws_loadbalancer/stack",
             RootStack, {}, <<>>)

lb_arn == Attribute(loadbalancer_ref, "lb_arn")
target_group_arn == Attribute(loadbalancer_ref, "target_group_arn")
address == Attribute(loadbalancer_ref, "lb_dns_name")

\* the arguments of db = database.PrivateDatabase("kutt", args=...)
db_args ==
    [vpc_id |-> vpc_id, subnet_ids |-> subnet_ids, db_name |-> "kutt",
     production |-> TRUE, disk_size |-> 10, engine |-> "postgres",
     port |-> 5432, engine_version |-> "13.7",
     instance_class |-> "db.t3.micro", username |-> "administrator",
     password |-> None, tags |-> Some(StackTags)]

\* db.database, once declared
db_database ==
    Registered(Urn(Urn(Self(DatabaseType, "kutt"), "aws.rds.SubnetGroup",
                       "kutt"), "aws.rds.Instance", "kutt"))

\* the arguments of cache = elasticache.PrivateRedis("kutt", args=...)
cache_args ==
    [vpc_id |-> vpc_id, subnet_ids |-> subnet_ids, port |-> 6379,
     instance_class |-> "cache.t2.micro", number_of_nodes |-> 1,
     tags |-> Some(StackTags)]

\* jwt_secret = random.RandomPassword("kutt-jwt-secret", length=32)
jwt_secret(result) ==
    TopLevel("random.RandomPassword", "kutt-jwt-secret", RootStack, {},
             [length |-> JwtSecretLength, result |-> result])

\* mail_user = aws.iam.User("kutt")
mail_user == TopLevel("aws.iam.User", "kutt", RootStack, {}, <<>>)

\* aws.iam.UserPolicyAttachment("kutt-mail-policy-attachment", ...)
mail_policy_attachment ==
    TopLevel("aws.iam.UserPolicyAttachment", "kutt-mail-policy-attachment",
             mail_user.urn, {mail_user.urn},
             [user |-> Attribute(mail_user, "name").value,
              policy_arn |-> "AMAZON_SES_FULL_ACCESS"])

\* access_key = aws.iam.AccessKey("kutt", user=mail_user.name, ...)
access_key ==
    TopLevel("aws.iam.AccessKey", "kutt", mail_user.urn, {mail_user.urn},
             [user |-> Attribute(mail_user, "name").value])

\* secret = aws.secretsmanager.Secret("kutt")
secret == TopLevel("aws.secretsmanager.Secret", "kutt", RootStack, {}, <<>>)

\* the dictionary given to json_dumps for secret_string
SecretBundle ==
    [RECAPTCHA_SECRET_KEY |-> Plain("config:recaptcha_secret_key"),
     RECAPTCHA_SITE_KEY |-> Plain("config:recaptcha_site_key"),
     DB_PASSWORD |-> Echo(db_database, "password"),
     MAIL_USER |-> Attribute(access_key, "id"),
     MAIL_PASSWORD |-> Attribute(access_key, "ses_smtp_password_v4"),
     JWT_SECRET |->
         Echo(Registered(jwt_secret(<<>>).urn), "result"),
     GOOGLE_SAFE_BROWSING_KEY |->
         Plain("config:google_safe_browsing_api_key")]

\* secrets = aws.secretsmanager.SecretVersion("kutt", ..., parent=secret)
secrets ==
    TopLevel("aws.secretsmanager.SecretVersion", "kutt", secret.urn,
             {secret.urn}
               \cup UNION {SecretBundle[k].deps : k \in DOMAIN SecretBundle},
             [secret_id |-> Attribute(secret, "id").value,
              secret_string |->
                  [k \in DOMAIN SecretBundle |-> SecretBundle[k].value]])

\* task_role = aws.iam.Role("kutt-task-role", ...)
task_role ==
    TopLevel("aws.iam.Role", "kutt-task-role", RootStack, {},
             [assume_role_policy |->
                  [Version |-> "2012-10-17",
                   Statement |-> <<[Action |-> "sts:AssumeRole",
                                    Principal |-> [Service |->
                                        "ecs-tasks.amazonaws.com"],
                                    Effect |-> "Allow", Sid |-> ""]>>]])

\* aws.iam.RolePolicyAttachment("kutt-iam-policy-attachment", ...)
iam_policy_attachment ==
    TopLevel("aws.iam.RolePolicyAttachment", "kutt-iam-policy-attachment",
             task_role.urn, {task_role.urn},
             [role |-> Attribute(task_role, "name").value,
              policy_arn |-> "AMAZON_ECS_FULL_ACCESS"])

\* one entry of secrets=[...]: the variable, and where its value comes from
SecretRef(key, path) ==
    [name |-> key, valueFrom |-> Concat(Attribute(secret, "arn"), path)]

\* the list with MAIL_USER read from the sub-path of MAIL_PASSWORD
kutt_secrets_crossed ==
    <<SecretRef("RECAPTCHA_SECRET_KEY", ":RECAPTCHA_SECRET_KEY::"),
      SecretRef("RECAPTCHA_SITE_KEY", ":RECAPTCHA_SITE_KEY::"),
      SecretRef("DB_PASSWORD", ":DB_PASSWORD::"),
      SecretRef("JWT_SECRET", ":JWT_SECRET::"),
      SecretRef("MAIL_PASSWORD", ":MAIL_PASSWORD::"),
      SecretRef("MAIL_USER", ":MAIL_PASSWORD::"),
      SecretRef("GOOGLE_SAFE_BROWSING_KEY", ":GOOGLE_SAFE_BROWSING_KEY::")>>

\* secrets=[...] of the WebApp arguments
kutt_secrets ==
    <<SecretRef("RECAPTCHA_SECRET_KEY", ":RECAPTCHA_SECRET_KEY::"),
      SecretRef("RECAPTCHA_SITE_KEY", ":RECAPTCHA_SITE_KEY::"),
      SecretRef("DB_PASSWORD", ":DB_PASSWORD::"),
      SecretRef("JWT_SECRET", ":JWT_SECRET::"),
      SecretRef("MAIL_PASSWORD", ":MAIL_PASSWORD::"),
      SecretRef("MAIL_USER", ":MAIL_USER::"),
      SecretRef("GOOGLE_SAFE_BROWSING_KEY", ":GOOGLE_SAFE_BROWSING_KEY::")>>

\* cache.cluster
cache_cluster == RedisCluster("kutt", cache_args)

\* environment=[...] of the WebApp arguments
kutt_environment ==
    <<[name |-> "DB_HOST", value |-> Attribute(db_database, "address")],
      [name |-> "DB_NAME", value |-> Echo(db_database, "db_name")],
      [name |-> "DB_USER", value |-> Echo(db_database, "username")],
      [name |-> "REDIS_HOST",
       value |-> Attribute(cache_cluster, "cache_nodes[0].address")],
      [name |-> "SITE_NAME", value |-> Plain("brig.gs")],
      [name |-> "DEFAULT_DOMAIN", value |-> Plain("brig.gs")],
      [name |-> " DISALLOW_ANONYMOUS_LINKS", value |-> Plain("true")],
      [name |-> "MAIL_HOST",
       value |-> Plain("email-smtp.us-west-2.amazonaws.com")],
      [name |-> "MAIL_PORT", value |-> Plain("587")],
      [name |-> "MAIL_FROM", value |-> Plain("urls@mail.brig.gs")],
      [name |-> "ADMIN_EMAILS", value |-> Plain("lee@leebriggs.co.uk")]>>

\* the arguments of kutt = fargate.WebApp("kutt", args=...)
kutt_args ==
    [vpc_id |-> vpc_id, subnet_ids |-> subnet_ids,
     image |-> "jaxxstorm/kutt:latest", container_name |-> "kutt",
     cluster_arn |-> cluster_arn, register_with_loadbalancer |-> TRUE,
     port |-> 3000, memory |-> "512", cpu |-> "256",
     desired_container_count |-> 1, log_group_retention |-> 3,
     task_role_arn |-> Some(Attribute(task_role, "arn")),
     command |-> Some(<<"npm", "start">>), tags |-> Some(StackTags),
     environment |-> Some(kutt_environment),
     secrets |-> Some(kutt_secrets),
     target_group_arn |-> Some(target_group_arn)]

\* kutt.task_execution_role
kutt_task_execution_role ==
    Urn(Self(WebAppType, "kutt"), "aws.iam.Role", "kutt")

\* rule = aws.lb.ListenerRule("brig.gs", ...)
rule ==
    TopLevel("aws.lb.ListenerRule", "brig.gs", RootStack,
             lb_arn.deps \cup target_group_arn.deps,
             [priority |-> 99,
              actions |-> <<[type |-> "forward",
                             target_group_arn |-> target_group_arn.value]>>,
              conditions |-> <<[host_header |-> <<"brig.gs">>]>>])

\* secret_policy = aws.iam.Policy("kutt-secret-access-policy", ...)
secret_policy ==
    TopLevel("aws.iam.Policy", "kutt-secret-access-policy",
             kutt_task_execution_role, Attribute(secret, "arn").deps,
             [policy |->
                  [version |-> "2012-10-17",
                   statements |->
                       <<[effect |-> "Allow",
                          actions |-> <<"secretsmanager:GetSecretValue">>,
                          resources |->
                              <<Attribute(secret, "arn").value>>]>>]])

\* aws.iam.RolePolicyAttachment("kutt-secret-policy-attachment", ...)
secret_policy_attachment ==
    TopLevel("aws.iam.RolePolicyAttachment", "kutt-secret-policy-attachment",
             kutt_task_execution_role,
             {kutt_task_execution_role, secret_policy.urn},
             [policy_arn |-> Attribute(secret_policy, "arn").value])

\* cname = cloudflare.record.Record("web", ...)
cname ==
    TopLevel("cloudflare.Record", "web", RootStack, address.deps,
             [name |-> "@", ttl |-> 60, proxied |-> FALSE,
              value |-> address.value, type |-> "CNAME"])

-----------------------------------------------------------------------------
(* The single pass of __main__.py, one action for each declaration *)

\* random.RandomPassword's default symbols, represented by one of them
DefaultSpecial == {"!"}

\* the task role declared only after the web application that reads its ARN
StackProgramRoleLate ==
    <<"vpc", "cluster", "loadbalancer", "db", "cache", "jwt_secret",
      "mail_user", "mail_policy_attachment", "access_key", "secret",
      "secrets", "kutt", "task_role", "iam_policy_attachment", "rule",
      "secret_policy", "secret_policy_attachment", "cname">>

\* the declarations of the program, in source order
StackProgram ==
    <<"vpc", "cluster", "loadbalancer", "db", "cache", "jwt_secret",
      "mail_user", "mail_policy_attachment", "access_key", "secret",
      "secrets", "task_role", "iam_policy_attachment", "kutt", "rule",
      "secret_policy", "secret_policy_attachment", "cname">>

\* the pass has reached the declaration named label
At(label) == pc <= Len(StackProgram) /\ StackProgram[pc] = label

\* vpc = pulumi.StackReference(...)
DeclareVpc ==
    /\ At("vpc")
    /\ Fresh(<<vpc_ref>>)
    /\ registered' = Append(registered, vpc_ref)
    /\ pc' = pc + 1
    /\ UNCHANGED <<calls, snapshots, constructed, vpc_id, tags>>

\* cluster = pulumi.StackReference(...)
DeclareCluster ==
    /\ At("cluster")
    /\ Fresh(<<cluster_ref>>)
    /\ registered' = Append(registered, cluster_ref)
    /\ pc' = pc + 1
    /\ UNCHANGED <<calls, snapshots, constructed, vpc_id, tags>>

\* loadbalancer = pulumi.StackReference(...)
DeclareLoadbalancer ==
    /\ At("loadbalancer")
    /\ Fresh(<<loadbalancer_ref>>)
    /\ registered' = Append(registered, loadbalancer_ref)
    /\ pc' = pc + 1
    /\ UNCHANGED <<calls, snapshots, constructed, vpc_id, tags>>

\* db = database.PrivateDatabase("kutt", args=...)
DeclareDb ==
    \E password_result \in RandomPasswordResult(PasswordLength,
                                                OverrideSpecial),
       snapshot_result \in RandomStringResult(SnapshotTokenLength) :
        LET decls == PrivateDatabase("kutt", db_args, password_result,
                                     snapshot_result)
        IN /\ At("db")
           /\ Fresh(decls)
           /\ registered' = registered \o decls
           /\ calls' = Append(calls, Call(decls, db_args))
           /\ constructed' = constructed + 1
           /\ pc' = pc + 1
           /\ UNCHANGED <<snapshots, vpc_id, tags>>

\* cache = elasticache.PrivateRedis("kutt", args=...)
DeclareCache ==
    LET decls == PrivateRedis("kutt", cache_args)
    IN /\ At("cache")
       /\ Fresh(decls)
       /\ registered' = registered \o decls
       /\ calls' = Append(calls, Call(decls, cache_args))
       /\ constructed' = constructed + 1
       /\ pc' = pc + 1
       /\ UNCHANGED <<snapshots, vpc_id, tags>>

\* jwt_secret = random.RandomPassword("kutt-jwt-secret", length=32)
DeclareJwtSecret ==
    \E result \in RandomPasswordResult(JwtSecretLength, DefaultSpecial) :
        /\ At("jwt_secret")
        /\ Fresh(<<jwt_secret(result)>>)
        /\ registered' = Append(registered, jwt_secret(result))
        /\ pc' = pc + 1
        /\ UNCHANGED <<calls, snapshots, constructed, vpc_id, tags>>

\* mail_user = aws.iam.User(...)
DeclareMailUser ==
    /\ At("mail_user")
    /\ Fresh(<<mail_user>>)
    /\ registered' = Append(registered, mail_user)
    /\ pc' = pc + 1
    /\ UNCHANGED <<calls, snapshots, constructed, vpc_id, tags>>

\* aws.iam.UserPolicyAttachment(...)
DeclareMailPolicyAttachment ==
    /\ At("mail_policy_attachment")
    /\ Fresh(<<mail_policy_attachment>>)
    /\ registered' = Append(registered, mail_policy_attachment)
    /\ pc' = pc + 1
    /\ UNCHANGED <<calls, snapshots, constructed, vpc_id, tags>>

\* access_key = aws.iam.AccessKey(...)
DeclareAccessKey ==
    /\ At("access_key")
    /\ Fresh(<<access_key>>)
    /\ registered' = Append(registered, access_key)
    /\ pc' = pc + 1
    /\ UNCHANGED <<calls, snapshots, constructed, vpc_id, tags>>

\* secret = aws.secretsmanager.Secret(...)
DeclareSecret ==
    /\ At("secret")
    /\ Fresh(<<secret>>)
    /\ registered' = Append(registered, secret)
    /\ pc' = pc + 1
    /\ UNCHANGED <<calls, snapshots, constructed, vpc_id, tags>>

\* secrets = aws.secretsmanager.SecretVersion(...)
DeclareSecrets ==
    /\ At("secrets")
    /\ Fresh(<<secrets>>)
    /\ registered' = Append(registered, secrets)
    /\ pc' = pc + 1
    /\ UNCHANGED <<calls, snapshots, constructed, vpc_id, tags>>

\* task_role = aws.iam.Role(...)
DeclareTaskRole ==
    /\ At("task_role")
    /\ Fresh(<<task_role>>)
    /\ registered' = Append(registered, task_role)
    /\ pc' = pc + 1
    /\ UNCHANGED <<calls, snapshots, constructed, vpc_id, tags>>

\* aws.iam.RolePolicyAttachment("kutt-iam-policy-attachment", ...)
DeclareIamPolicyAttachment ==
    /\ At("iam_policy_attachment")
    /\ Fresh(<<iam_policy_attachment>>)
    /\ registered' = Append(registered, iam_policy_attachment)
    /\ pc' = pc + 1
    /\ UNCHANGED <<calls, snapshots, constructed, vpc_id, tags>>

\* kutt = fargate.WebApp("kutt", args=...)
DeclareKutt ==
    LET decls == WebApp("kutt", kutt_args)
    IN /\ At("kutt")
       /\ Fresh(decls)
       /\ registered' = registered \o decls
       /\ calls' = Append(calls, Call(decls, kutt_args))
       /\ constructed' = constructed + 1
       /\ pc' = pc + 1
       /\ UNCHANGED <<snapshots, vpc_id, tags>>

\* rule = aws.lb.ListenerRule(...)
DeclareRule ==
    /\ At("rule")
    /\ Fresh(<<rule>>)
    /\ registered' = Append(registered, rule)
    /\ pc' = pc + 1
    /\ UNCHANGED <<calls, snapshots, constructed, vpc_id, tags>>

\* secret_policy = aws.iam.Policy(...)
DeclareSecretPolicy ==
    /\ At("secret_policy")
    /\ Fresh(<<secret_policy>>)
    /\ registered' = Append(registered, secret_policy)
    /\ pc' = pc + 1
    /\ UNCHANGED <<calls, snapshots, constructed, vpc_id, tags>>

\* aws.iam.RolePolicyAttachment("kutt-secret-policy-attachment", ...)
DeclareSecretPolicyAttachment ==
    /\ At("secret_policy_attachment")
    /\ Fresh(<<secret_policy_attachment>>)
    /\ registered' = Append(registered, secret_policy_attachment)
    /\ pc' = pc + 1
    /\ UNCHANGED <<calls, snapshots, constructed, vpc_id, tags>>

\* cname = cloudflare.record.Record(...)
DeclareCname ==
    /\ At("cname")
    /\ Fresh(<<cname>>)
    /\ registered' = Append(registered, cname)
    /\ pc' = pc + 1
    /\ UNCHANGED <<calls, snapshots, constructed, vpc_id, tags>>

InitStack ==
    /\ registered = <<>>
    /\ calls = <<>>
    /\ snapshots = {}
    /\ constructed = 0
    /\ pc = 1
    /\ vpc_id \in {[value |-> v, deps |-> {vpc_ref.urn}] : v \in VpcIds}
    /\ tags = Some(StackTags)

NextStack ==
    \/ DeclareVpc \/ DeclareCluster \/ DeclareLoadbalancer
    \/ DeclareDb \/ DeclareCache \/ DeclareJwtSecret
    \/ DeclareMailUser \/ DeclareMailPolicyAttachment \/ DeclareAccessKey
    \/ DeclareSecret \/ DeclareSecrets
    \/ DeclareTaskRole \/ DeclareIamPolicyAttachment
    \/ DeclareKutt \/ DeclareRule
    \/ DeclareSecretPolicy \/ DeclareSecretPolicyAttachment
    \/ DeclareCname

SpecStack == InitStack /\ [][NextStack]_vars

-----------------------------------------------------------------------------
(* What the claims speak of *)

\* the constructor calls of one component type
CallsOf(type) == {k \in 1..Len(calls) : calls[k].component[1] = type}

\* the declarations of type `type` made by the constructor of component c
Declared(c, type) ==
    {i \in 1..Len(registered) :
        registered[i].component = c /\ registered[i].type = type}

\* the one declaration of that type (where the constructor makes one)
The(c, type) == registered[CHOOSE i \in Declared(c, type) : TRUE]

\* the declarations a constructor made, the component itself excluded
Primitives(c) ==
    {i \in 1..Len(registered) :
        registered[i].component = c /\ registered[i].urn # c}

\* the resource types that take a tags argument
Taggable ==
    {"aws.rds.SubnetGroup", "aws.ec2.SecurityGroup", "aws.rds.Instance",
     "aws.ssm.Parameter", "aws.elasticache.SubnetGroup",
     "aws.elasticache.Cluster", "aws.cloudwatch.LogGroup", "aws.iam.Role",
     "aws.ecs.TaskDefinition", "aws.ecs.Service"}

(* C1: every taggable resource a component's constructor declares carries
   exactly the tag set the caller passed: none is declared without tags or
   with other tags. *)
C1_EveryResourceCarriesCallerTags ==
    \A k \in 1..Len(calls) :
        \A i \in Primitives(calls[k].component) :
            registered[i].type \in Taggable
                => registered[i].tags = calls[k].args.tags

(* C2: without args.password the instance's password is the generated one,
   16 characters long with at least one character of the restricted symbol
   set; with args.password the instance receives that value and no password
   is generated. *)
C2_GeneratedPasswordHasSymbol ==
    \A k \in CallsOf(DatabaseType) :
        LET c == calls[k].component
            password == The(c, "aws.rds.Instance").props.password
        IN IF calls[k].args.password = None
           THEN /\ Cardinality(Declared(c, "random.RandomPassword")) = 1
                /\ password = The(c, "random.RandomPassword").props.result
                /\ Len(password) = 16
                /\ \E i \in 1..Len(password) : password[i] \in OverrideSpecial
           ELSE /\ Declared(c, "random.RandomPassword") = {}
                /\ password = calls[k].args.password[1]

(* C3: the declared database instance has skip_final_snapshot = false
   exactly when args.production is true. *)
C3_SkipFinalSnapshotIffNotProduction ==
    \A k \in CallsOf(DatabaseType) :
        (The(calls[k].component, "aws.rds.Instance").props.skip_final_snapshot
            = FALSE)
        <=> (calls[k].args.production = TRUE)

\* a production database and a non-production one are declared
C3_Witness ==
    \E k, l \in CallsOf(DatabaseType) :
        /\ calls[k].args.production
        /\ ~The(calls[k].component,
                "aws.rds.Instance").props.skip_final_snapshot
        /\ ~calls[l].args.production
        /\ The(calls[l].component,
               "aws.rds.Instance").props.skip_final_snapshot

\* the security group of a component admits only the looked-up network on
\* the configured port, and lets everything out
OnlyVpcIngress(k) ==
    LET c == calls[k].component
        props == The(c, "aws.ec2.SecurityGroup").props
    IN /\ Cardinality(Declared(c, "aws.ec2.SecurityGroup")) = 1
       /\ Len(props.ingress) = 1
       /\ props.ingress[1].protocol = "tcp"
       /\ props.ingress[1].from_port = calls[k].args.port
       /\ props.ingress[1].to_port = calls[k].args.port
       /\ props.ingress[1].cidr_blocks
             = <<get_vpc(calls[k].args.vpc_id.value).cidr_block>>
       /\ Len(props.egress) = 1
       /\ props.egress[1].protocol = "-1"
       /\ props.egress[1].from_port = 0
       /\ props.egress[1].to_port = 0
       /\ props.egress[1].cidr_blocks = <<"0.0.0.0/0">>

(* C4: the security group of PrivateRedis and of PrivateDatabase has exactly
   one ingress rule, tcp, from_port = to_port = the configured port, whose
   only source is the CIDR block of the VPC looked up from vpc_id; its egress
   rule is unrestricted (protocol -1, ports 0-0, 0.0.0.0/0). *)
C4_IngressOnlyFromVpcOnPort ==
    \A k \in CallsOf(DatabaseType) \cup CallsOf(RedisType) : OnlyVpcIngress(k)

\* a database and a cache on non-default ports are declared
C4_Witness ==
    /\ \E k \in CallsOf(DatabaseType) : calls[k].args.port = 5433
    /\ \E k \in CallsOf(RedisType) : calls[k].args.port = 6380
    /\ vpc_id.value = "vpc-b"

(* C5: the service carries a load-balancer binding, naming
   args.container_name, args.port and args.target_group_arn, exactly when
   args.register_with_loadbalancer is true; otherwise load_balancers is None,
   not an empty list; the service never gets a public IP. *)
C5_LoadBalancerIffRegistered ==
    \A k \in CallsOf(WebAppType) :
        LET props == The(calls[k].component, "aws.ecs.Service").props
            args == calls[k].args
        IN /\ args.register_with_loadbalancer
               => props.load_balancers
                    = Some(<<[container_name |-> args.container_name,
                              container_port |-> args.port,
                              target_group_arn |-> args.target_group_arn]>>)
           /\ ~args.register_with_loadbalancer
               => /\ props.load_balancers = None
                  /\ props.load_balancers # Some(<<>>)
           /\ props.network_configuration.assign_public_ip = FALSE

\* one service registers with the load balancer and one does not
C5_Witness ==
    \E k, l \in CallsOf(WebAppType) :
        /\ ~calls[k].args.register_with_loadbalancer
        /\ The(calls[k].component, "aws.ecs.Service").props.load_balancers
              = None
        /\ calls[l].args.register_with_loadbalancer
        /\ The(calls[l].component, "aws.ecs.Service").props.load_balancers
              # None

\* the registered database instances, and those that take a final snapshot
Instances ==
    {i \in 1..Len(registered) : registered[i].type = "aws.rds.Instance"}
Snapshotting == {i \in Instances : ~registered[i].props.skip_final_snapshot}

\* an instance's final snapshot identifier, and its component's random token
SnapshotName(i) == registered[i].props.final_snapshot_identifier
TokenOf(i) ==
    The(registered[i].component, "random.RandomString").props.result

\* the identifier is "name-", the 4-character token, "-deleted"
EmbedsToken(identifier, token) ==
    /\ Len(token) = 4
    /\ Len(identifier) = 17
    /\ SubSeq(identifier, 1, 5) = <<"n", "a", "m", "e", "-">>
    /\ SubSeq(identifier, 6, 9) = token
    /\ SubSeq(identifier, 10, 17)
          = <<"-", "d", "e", "l", "e", "t", "e", "d">>

(* C6, as claimed: the final snapshot identifier is non-null and embeds the
   4-character random token, and final-snapshot names never collide:
   neither those of two database components of one stack nor that of a
   database and a final snapshot an earlier create/destroy cycle left. *)
C6_SnapshotNamesNeverCollide ==
    /\ \A i \in Instances :
          /\ SnapshotName(i) # None
          /\ EmbedsToken(SnapshotName(i)[1], TokenOf(i))
    /\ \A i, j \in Snapshotting :
          i # j => SnapshotName(i) # SnapshotName(j)
    /\ \A i \in Snapshotting : SnapshotName(i)[1] \notin snapshots

(* C6, amended: the final snapshot identifier is non-null and is the fixed
   text "name-", the component's 4-character random token, "-deleted", with
   no component name and no counter in it; so two final-snapshot names, of
   two database components or of successive cycles, are equal exactly when
   their random tokens are equal. *)
C6_SnapshotNameFromTokenAlone ==
    /\ \A i \in Instances :
          /\ SnapshotName(i) # None
          /\ EmbedsToken(SnapshotName(i)[1], TokenOf(i))
    /\ \A i, j \in Instances :
          (SnapshotName(i) = SnapshotName(j)) <=> (TokenOf(i) = TokenOf(j))
    /\ \A s \in snapshots :
          /\ EmbedsToken(s, SubSeq(s, 6, 9))
          /\ \A i \in Instances :
                (SnapshotName(i)[1] = s) <=> (TokenOf(i) = SubSeq(s, 6, 9))

\* a second cycle: a database that will leave a final snapshot, declared
\* after an earlier one left its own under another name
C6_Witness ==
    /\ snapshots # {}
    /\ \E i \in Snapshotting : SnapshotName(i)[1] \notin snapshots

\* the parents of a declaration, up to the stack
RECURSIVE Ancestors(_, _)
Ancestors(urn, fuel) ==
    IF urn = RootStack \/ fuel = 0 \/ urn \notin Urns(registered)
    THEN {}
    ELSE {Registered(urn).parent}
           \cup Ancestors(Registered(urn).parent, fuel - 1)

(* C7: ownership is a tree rooted at the component: every resource declared
   inside a component's constructor, the generated password and the random
   snapshot suffix included, has the component as its parent or as an
   ancestor of its parent chain, and has exactly one owner. *)
C7_OwnershipTreeRootedAtComponent ==
    \A k \in 1..Len(calls) :
        \A i \in Primitives(calls[k].component) :
            /\ calls[k].component
                  \in Ancestors(registered[i].urn, Len(registered))
            /\ Cardinality({j \in 1..Len(registered) :
                              registered[j].urn = registered[i].parent}) = 1

\* the identities registered before position i of the pass
Earlier(i) == {registered[j].urn : j \in 1..(i - 1)}

(* C8: in the pass every attribute reference a declaration is given, and its
   parent, refers to a resource declared strictly earlier, so the
   parent/dependency graph is acyclic and no declaration reads an attribute
   of a resource not yet declared. *)
C8_ReferencesDeclaredEarlier ==
    \A i \in 1..Len(registered) :
        /\ registered[i].deps \subseteq Earlier(i)
        /\ registered[i].parent \in Earlier(i) \cup {RootStack}
        /\ registered[i].urn \notin Earlier(i)

\* the pass is complete, and the task definition read the secret's ARN, the
\* task role's ARN, the database's and the cache's attributes
C8_Witness ==
    /\ pc > Len(StackProgram)
    /\ \E i \in 1..Len(registered) :
          /\ registered[i].type = "aws.ecs.TaskDefinition"
          /\ {secret.urn, task_role.urn, db_database.urn, cache_cluster.urn}
                \subseteq registered[i].deps
    /\ \E i \in 1..Len(registered) :
          /\ registered[i].type = "aws.secretsmanager.SecretVersion"
          /\ db_database.urn \in registered[i].deps
    /\ \E i \in 1..Len(registered) :
          /\ registered[i].urn = secret_policy_attachment.urn
          /\ kutt_task_execution_role \in registered[i].deps

\* the seven keys of the secret bundle
BundleKeys ==
    {"RECAPTCHA_SECRET_KEY", "RECAPTCHA_SITE_KEY", "DB_PASSWORD",
     "MAIL_USER", "MAIL_PASSWORD", "JWT_SECRET", "GOOGLE_SAFE_BROWSING_KEY"}

\* the declarations of one type, anywhere in the stack
OfType(type) == {i \in 1..Len(registered) : registered[i].type = type}

(* C9: the secret bundle is one secret-store entry whose JSON object has
   exactly the seven fixed keys, and the container's secret references are
   exactly those seven: each names a key of the bundle, its valueFrom is the
   bundle's ARN followed by the sub-path of that same key, and each key is
   injected by exactly one reference. *)
C9_SecretRefsMatchBundle ==
    /\ Cardinality(OfType("aws.secretsmanager.Secret")) <= 1
    /\ Cardinality(OfType("aws.secretsmanager.SecretVersion")) <= 1
    /\ \A i \in OfType("aws.secretsmanager.SecretVersion") :
          /\ DOMAIN registered[i].props.secret_string = BundleKeys
          /\ registered[i].parent \in
                {registered[j].urn : j \in OfType("aws.secretsmanager.Secret")}
    /\ \A i \in OfType("aws.ecs.TaskDefinition") :
          LET container == registered[i].props.container_definitions[1]
              refs == container.secrets[1]
          IN /\ OfType("aws.secretsmanager.SecretVersion") # {}
             /\ container.secrets # None
             /\ Len(refs) = Cardinality(BundleKeys)
             /\ {refs[n].name : n \in 1..Len(refs)} = BundleKeys
             /\ \A n \in 1..Len(refs) :
                   refs[n].valueFrom.value
                      = Attribute(Registered(secret.urn), "arn").value
                          \o ":" \o refs[n].name \o "::"

\* the web application's task definition is declared, its secrets injected
C9_Witness ==
    /\ OfType("aws.secretsmanager.SecretVersion") # {}
    /\ \E i \in OfType("aws.ecs.TaskDefinition") :
          registered[i].props.container_definitions[1].secrets # None

(* C10: the task specification has exactly one container entry, with
   exactly one port mapping, whose containerPort is args.port and whose
   protocol is tcp; the security group's ingress rule and the load-balancer
   binding name that same port. *)
C10_SinglePortMappingOnPort ==
    \A k \in CallsOf(WebAppType) :
        LET c == calls[k].component
            containers ==
                The(c, "aws.ecs.TaskDefinition").props.container_definitions
            ingress == The(c, "aws.ec2.SecurityGroup").props.ingress
            bindings == The(c, "aws.ecs.Service").props.load_balancers
        IN /\ Len(containers) = 1
           /\ Len(containers[1].portMappings) = 1
           /\ containers[1].portMappings[1].containerPort
                 = calls[k].args.port
           /\ containers[1].portMappings[1].protocol = "tcp"
           /\ Len(ingress) = 1
           /\ ingress[1].from_port = containers[1].portMappings[1].containerPort
           /\ ingress[1].to_port = containers[1].portMappings[1].containerPort
           /\ bindings # None
                => \A n \in 1..Len(bindings[1]) :
                      bindings[1][n].container_port
                         = containers[1].portMappings[1].containerPort

\* a web application on port 3000 behind the load balancer, and one on 80
C10_Witness ==
    /\ \E k \in CallsOf(WebAppType) :
          /\ calls[k].args.port = 3000
          /\ calls[k].args.register_with_loadbalancer
          /\ The(calls[k].component, "aws.ecs.Service").props.load_balancers
                # None
    /\ \E k \in CallsOf(WebAppType) : calls[k].args.port = 80

(* C11: whether or not args.password is given, the declared database
   instance has a password (the generated one when none is given, the given
   one otherwise, never None), and the component's one SecureString
   parameter holds the very password the instance was declared with. *)
C11_ParameterHoldsInstanceCredential ==
    \A k \in CallsOf(DatabaseType) :
        LET c == calls[k].component
            password == The(c, "aws.rds.Instance").props.password
        IN /\ Cardinality(Declared(c, "aws.rds.Instance")) = 1
           /\ Cardinality(Declared(c, "aws.ssm.Parameter")) = 1
           /\ password # None
           /\ password = IF calls[k].args.password = None
                         THEN The(c, "random.RandomPassword").props.result
                         ELSE calls[k].args.password[1]
           /\ The(c, "aws.ssm.Parameter").props.type = "SecureString"
           /\ The(c, "aws.ssm.Parameter").props.value = password

\* two databases, one given a password and one not, each with its parameter
C11_Witness ==
    /\ \E k \in CallsOf(DatabaseType) :
          /\ calls[k].args.password = None
          /\ Len(The(calls[k].component, "aws.ssm.Parameter").props.value)
                = PasswordLength
    /\ \E k \in CallsOf(DatabaseType) :
          /\ calls[k].args.password # None
          /\ The(calls[k].component, "aws.ssm.Parameter").props.value
                = SuppliedPassword

(* C12: for every port argument, the port the declared instance (cluster)
   listens on equals the port opened by the ingress rule of the component's
   security group, for PrivateDatabase as for PrivateRedis. *)
C12_InstanceListensOnIngressPort ==
    /\ \A k \in CallsOf(DatabaseType) :
          LET c == calls[k].component
          IN \A r \in 1..Len(The(c, "aws.ec2.SecurityGroup").props.ingress) :
                LET opened == The(c, "aws.ec2.SecurityGroup").props.ingress[r]
                    port == InstancePort(The(c, "aws.rds.Instance").props)
                IN opened.from_port = port /\ opened.to_port = port
    /\ \A k \in CallsOf(RedisType) :
          LET c == calls[k].component
          IN \A r \in 1..Len(The(c, "aws.ec2.SecurityGroup").props.ingress) :
                LET opened == The(c, "aws.ec2.SecurityGroup").props.ingress[r]
                    port == The(c, "aws.elasticache.Cluster").props.port
                IN opened.from_port = port /\ opened.to_port = port

=============================================================================
